---- MODULE Spec2Model ----
(***************************************************************************)
(* The MetaMask login backend (src/backend/main.go): the in-memory user    *)
(* store behind a sync.RWMutex, the three HTTP handlers (register, nonce,  *)
(* signin) run by concurrent request workers, and the nonce generator.     *)
(* Strings are sequences of one-character strings, so that the regular     *)
(* expression, strings.ToLower and big.Int.Text(10) are computed           *)
(* character by character.                                                 *)
(***************************************************************************)
EXTENDS Integers, Sequences, FiniteSets, TLC

\* ------------------------------------------------------------------ bounds
\* Request workers; each serves one request.
NumWorkers == 3
\* Bit width of the nonce bound (130 in the source, line 155), scaled down.
NonceBits == 2
\* Calls of GetNonce in the generator-only specification.
MaxCalls == 4
\* Calls of the page's login() in the page-and-server specification.
NumFlows == 2

\* ------------------------------------------------------- program constants
\* Number of hex digits the address pattern asks for.
AddrLen == 40
StatusOK == 200
StatusCreated == 201
StatusBadRequest == 400
StatusNotFound == 404
StatusConflict == 409
StatusInternalServerError == 500

\* ----------------------------------------------------------------- strings
Rep(c, n) == [i \in 1..n |-> c]

UpperChars == <<"A","B","C","D","E","F","G","H","I","J","K","L","M",
                "N","O","P","Q","R","S","T","U","V","W","X","Y","Z">>
LowerChars == <<"a","b","c","d","e","f","g","h","i","j","k","l","m",
                "n","o","p","q","r","s","t","u","v","w","x","y","z">>
DigitChars == <<"0","1","2","3","4","5","6","7","8","9">>

\* The lower-case letter of each upper-case letter.
LowerOf == [c \in {UpperChars[i] : i \in 1..26} |->
              LowerChars[CHOOSE i \in 1..26 : UpperChars[i] = c]]

ToLowerChar(c) == IF c \in DOMAIN LowerOf THEN LowerOf[c] ELSE c

\* strings.ToLower without the lowering: what a forgotten call would store.
ToLowerIdentity(s) == s

\* strings.ToLower
ToLower(s) == [i \in 1..Len(s) |-> ToLowerChar(s[i])]

\* The character class [a-fA-F0-9].
HexDigit == {DigitChars[i] : i \in 1..10}
              \cup {LowerChars[i] : i \in 1..6} \cup {UpperChars[i] : i \in 1..6}

\* hexRegex.MatchString: ^0x[a-fA-F0-9]{40}$
hexRegex(s) ==
  /\ Len(s) = 2 + AddrLen
  /\ s[1] = "0"
  /\ s[2] = "x"
  /\ \A i \in 3..Len(s) : s[i] \in HexDigit

\* big.Int.Text(10) of a non-negative integer.
RECURSIVE Text10(_)
Text10(n) == IF n < 10 THEN <<DigitChars[n + 1]>>
             ELSE Text10(n \div 10) \o <<DigitChars[(n % 10) + 1]>>

\* ------------------------------------------------------------------ inputs
AddrLower == <<"0", "x">> \o Rep("a", AddrLen)
AddrUpper == <<"0", "x">> \o Rep("A", AddrLen)
AddrOther == <<"0", "x">> \o Rep("b", AddrLen)
AddrShort == <<"0", "x", "1", "2", "3">>
AddrInputs == {AddrLower, AddrUpper, AddrOther, AddrShort}
\* Addresses the signin requests carry.
SigninAddrInputs == {AddrLower, AddrShort}
\* Nonces the signin requests carry.
SigninNonceInputs == {Text10(0)}

Workers == 1..NumWorkers
NoString == <<>>

\* ------------------------------------------------------------------- state
VARIABLES
  users,      \* MemStorage.users: address -> User
  lock,       \* MemStorage.lock: the writer holding it (0: none), the readers
  max,        \* the package variable max; 0 while once.Do has not run
  pc,         \* each worker's position in its handler
  req,        \* each worker's request
  loc,        \* each worker's local variables
  resp,       \* each worker's response: status and body
  regBefore,  \* history: a 201 for this address had been sent when the request arrived
  nonceLog,   \* history of GetNonce results in the generator-only specification
  flow        \* each login() call of the page: its position and what it has seen

vars == <<users, lock, max, pc, req, loc, resp, regBefore, nonceLog, flow>>

NoReq == [kind |-> "none", bodyOk |-> FALSE, address |-> NoString,
          nonce |-> NoString, sigValid |-> FALSE]
NoUser == [Address |-> NoString, Nonce |-> NoString]
NoLoc == [u |-> NoUser, err |-> "nil"]
NoResp == [status |-> 0, body |-> NoString]

Flows == 1..NumFlows
\* A login() call not made yet: address and account are null, no request sent.
NoFlow == [pc |-> "idle", address |-> NoString, nonce |-> NoString, depth |-> 0,
           registers |-> 0, registerStatus |-> 0, signins |-> 0, outcome |-> "none"]

\* NewMemStorage, the package variables, and workers waiting for requests.
Init ==
  /\ users = [k \in {} |-> NoUser]
  /\ lock = [writer |-> 0, readers |-> {}]
  /\ max = 0
  /\ pc = [w \in Workers |-> "idle"]
  /\ req = [w \in Workers |-> NoReq]
  /\ loc = [w \in Workers |-> NoLoc]
  /\ resp = [w \in Workers |-> NoResp]
  /\ regBefore = [w \in Workers |-> FALSE]
  /\ nonceLog = <<>>
  /\ flow = [f \in Flows |-> NoFlow]

\* Two addresses that differ at most in the case of their letters.
EqualFold(a, b) ==
  \/ a = b
  \/ /\ Len(a) = Len(b)
     /\ \A i \in 1..Len(a) :
          \/ a[i] = b[i]
          \/ a[i] \in DOMAIN LowerOf /\ LowerOf[a[i]] = b[i]
          \/ b[i] \in DOMAIN LowerOf /\ LowerOf[b[i]] = a[i]

\* History: some register request for this address has been answered 201.
Answered201(a) ==
  \E v \in Workers :
    /\ pc[v] = "done"
    /\ req[v].kind = "register"
    /\ resp[v].status = StatusCreated
    /\ EqualFold(req[v].address, a)

\* Workers take their requests in order of their number.
CanBegin(w) ==
  /\ pc[w] = "idle"
  /\ IF w = 1 THEN TRUE ELSE pc[w - 1] # "idle"

Finish(w, status, body) ==
  /\ pc' = [pc EXCEPT ![w] = "done"]
  /\ resp' = [resp EXCEPT ![w] = [status |-> status, body |-> body]]
  /\ loc' = [loc EXCEPT ![w] = NoLoc]

\* ---------------------------------------------------------- MemStorage.lock
\* Lock without mutual exclusion.
CanLockAlways == TRUE

\* sync.RWMutex.Lock returns when no writer and no reader holds the lock.
CanLock == lock.writer = 0 /\ lock.readers = {}

\* RLock that does not wait for the writer.
CanRLockAlways == TRUE

\* sync.RWMutex.RLock returns when no writer holds the lock. (Go also holds new
\* readers back while a writer waits; the model allows them, which only adds
\* interleavings.)
CanRLock == lock.writer = 0

\* ------------------------------------------------------------------ GetNonce
\* once.Do: max = 2^130 - 1, here 2^NonceBits - 1.
OnceMax == IF max = 0 THEN 2 ^ NonceBits - 1 ELSE max

\* rand.Int(rand.Reader, m): a value in [0, m).
RandInt(m) == 0..(m - 1)

\* GetNonce's results: the decimal text of the value drawn, or the error of
\* the random source.
GetNonceResults(m) ==
  {[err |-> FALSE, nonce |-> Text10(n)] : n \in RandInt(m)}
    \cup {[err |-> TRUE, nonce |-> NoString]}

\* ----------------------------------------------------------- RegisterHandler
RegisterBodies ==
  {[ok |-> TRUE, address |-> a] : a \in AddrInputs}
    \cup {[ok |-> FALSE, address |-> NoString]}

\* RegisterPayload.Validate with the pattern match left out.
ValidateAlways(address) == TRUE

\* RegisterPayload.Validate
Validate(address) == hexRegex(address)

\* The key a register request stores its user under.
RegisterKey(address) == ToLower(address)

\* The handler going on with the empty nonce of a failed GetNonce.
NonceFailedNever(r) == FALSE

\* RegisterHandler's test of GetNonce's error: err != nil
NonceFailed(r) == r.err

\* The handler up to its call of the store, all of it local to the request:
\* bindReqBody, Validate, GetNonce, and the User value built from the payload.
RegisterArrive(w, body) ==
  /\ req' = [req EXCEPT ![w] = [kind |-> "register", bodyOk |-> body.ok,
                                address |-> body.address,
                                nonce |-> NoString, sigValid |-> FALSE]]
  /\ regBefore' = [regBefore EXCEPT ![w] = Answered201(body.address)]
  /\ IF ~body.ok \/ ~Validate(body.address)
       THEN /\ Finish(w, StatusBadRequest, NoString)
            /\ UNCHANGED max
       ELSE /\ max' = OnceMax
            /\ \E r \in GetNonceResults(OnceMax) :
                 IF NonceFailed(r)
                   THEN Finish(w, StatusInternalServerError, NoString)
                   ELSE /\ loc' = [loc EXCEPT ![w].u =
                                     [Address |-> RegisterKey(body.address),
                                      Nonce |-> r.nonce]]
                        /\ pc' = [pc EXCEPT ![w] = "create_lock"]
                        /\ UNCHANGED resp
  /\ UNCHANGED <<users, lock, nonceLog>>

\* A register request of any client arrives.
RegisterBegin(w) ==
  \E body \in RegisterBodies :
    /\ CanBegin(w)
    /\ RegisterArrive(w, body)
    /\ UNCHANGED flow

\* CreateIfNotExists: m.lock.Lock()
CreateLock(w) ==
  /\ pc[w] = "create_lock"
  /\ CanLock
  /\ lock' = [lock EXCEPT !.writer = w]
  /\ pc' = [pc EXCEPT ![w] = "create_check"]
  /\ UNCHANGED <<users, max, req, loc, resp, regBefore, nonceLog, flow>>

\* The existence test that never finds the user.
ExistsNever(address) == FALSE

\* _, exists := m.users[u.Address]
Exists(address) == address \in DOMAIN users

\* CreateIfNotExists: the existence test.
CreateCheck(w) ==
  /\ pc[w] = "create_check"
  /\ IF Exists(loc[w].u.Address)
       THEN /\ loc' = [loc EXCEPT ![w].err = "ErrUserExists"]
            /\ pc' = [pc EXCEPT ![w] = "create_unlock"]
       ELSE /\ pc' = [pc EXCEPT ![w] = "create_insert"]
            /\ UNCHANGED loc
  /\ UNCHANGED <<users, lock, max, req, resp, regBefore, nonceLog, flow>>

\* The map assignment that drops the other entries.
MapAssignAlone(u) == [k \in {u.Address} |-> u]

\* The map after m.users[u.Address] = u
MapAssign(u) == [k \in DOMAIN users \cup {u.Address} |->
                  IF k = u.Address THEN u ELSE users[k]]

\* CreateIfNotExists: m.users[u.Address] = u
CreateInsert(w) ==
  /\ pc[w] = "create_insert"
  /\ users' = MapAssign(loc[w].u)
  /\ pc' = [pc EXCEPT ![w] = "create_unlock"]
  /\ UNCHANGED <<lock, max, req, loc, resp, regBefore, nonceLog, flow>>

\* CreateIfNotExists: the deferred m.lock.Unlock()
CreateUnlock(w) ==
  /\ pc[w] = "create_unlock"
  /\ lock' = [lock EXCEPT !.writer = 0]
  /\ pc' = [pc EXCEPT ![w] = "register_respond"]
  /\ UNCHANGED <<users, max, req, loc, resp, regBefore, nonceLog, flow>>

\* The status RegisterHandler writes for CreateIfNotExists's result.
RegisterStatus(err) ==
  IF err = "nil" THEN StatusCreated
  ELSE IF err = "ErrUserExists" THEN StatusConflict
  ELSE StatusInternalServerError

RegisterRespond(w) ==
  /\ pc[w] = "register_respond"
  /\ Finish(w, RegisterStatus(loc[w].err), NoString)
  /\ UNCHANGED <<users, lock, max, req, regBefore, nonceLog, flow>>

\* ---------------------------------------------------------- UserNonceHandler
\* The key a nonce request looks up, without the lowering.
NonceKeyRaw(address) == address

\* The key a nonce request looks up.
NonceKey(address) == ToLower(address)

\* The request arrives: the address parameter is matched against the pattern.
UserNonceArrive(w, address) ==
  /\ req' = [req EXCEPT ![w] = [kind |-> "nonce", bodyOk |-> TRUE,
                                address |-> address,
                                nonce |-> NoString, sigValid |-> FALSE]]
  /\ regBefore' = [regBefore EXCEPT ![w] = Answered201(address)]
  /\ IF ~hexRegex(address)
       THEN Finish(w, StatusBadRequest, NoString)
       ELSE /\ pc' = [pc EXCEPT ![w] = "get_rlock"]
            /\ UNCHANGED <<loc, resp>>
  /\ UNCHANGED <<users, lock, max, nonceLog>>

\* A nonce request of any client arrives.
UserNonceBegin(w) ==
  \E address \in AddrInputs :
    /\ CanBegin(w)
    /\ UserNonceArrive(w, address)
    /\ UNCHANGED flow

\* Get: m.lock.RLock()
GetRLock(w) ==
  /\ pc[w] = "get_rlock"
  /\ CanRLock
  /\ lock' = [lock EXCEPT !.readers = @ \cup {w}]
  /\ pc' = [pc EXCEPT ![w] = "get_read"]
  /\ UNCHANGED <<users, max, req, loc, resp, regBefore, nonceLog, flow>>

\* Get that issues a fresh nonce to the account it reads.
GetReadRotating(w) ==
  /\ pc[w] = "get_read"
  /\ LET k == NonceKey(req[w].address) IN
       IF k \in DOMAIN users
         THEN /\ loc' = [loc EXCEPT ![w].u = users[k]]
              /\ \E n \in RandInt(OnceMax) :
                   /\ Text10(n) # users[k].Nonce
                   /\ users' = [users EXCEPT ![k].Nonce = Text10(n)]
         ELSE /\ loc' = [loc EXCEPT ![w].u = NoUser, ![w].err = "ErrUserNotExists"]
              /\ UNCHANGED users
  /\ pc' = [pc EXCEPT ![w] = "get_runlock"]
  /\ UNCHANGED <<lock, max, req, resp, regBefore, nonceLog, flow>>

\* Get: u, exists := m.users[address]
GetRead(w) ==
  /\ pc[w] = "get_read"
  /\ LET k == NonceKey(req[w].address) IN
       IF k \in DOMAIN users
         THEN loc' = [loc EXCEPT ![w].u = users[k]]
         ELSE loc' = [loc EXCEPT ![w].u = NoUser, ![w].err = "ErrUserNotExists"]
  /\ pc' = [pc EXCEPT ![w] = "get_runlock"]
  /\ UNCHANGED <<users, lock, max, req, resp, regBefore, nonceLog, flow>>

\* Get: the deferred m.lock.RUnlock()
GetRUnlock(w) ==
  /\ pc[w] = "get_runlock"
  /\ lock' = [lock EXCEPT !.readers = @ \ {w}]
  /\ pc' = [pc EXCEPT ![w] = "nonce_respond"]
  /\ UNCHANGED <<users, max, req, loc, resp, regBefore, nonceLog, flow>>

\* The status UserNonceHandler writes for Get's result.
UserNonceStatus(err) ==
  IF err = "nil" THEN StatusOK
  ELSE IF err = "ErrUserNotExists" THEN StatusNotFound
  ELSE StatusInternalServerError

UserNonceRespond(w) ==
  /\ pc[w] = "nonce_respond"
  /\ Finish(w, UserNonceStatus(loc[w].err),
            IF loc[w].err = "nil" THEN loc[w].u.Nonce ELSE NoString)
  /\ UNCHANGED <<users, lock, max, req, regBefore, nonceLog, flow>>

\* ------------------------------------------------------------- SigninHandler
\* The handler's body is empty: it reads nothing of the request and of the
\* store, and net/http answers 200 with an empty body for it.
SigninArrive(w, address, nonce, sigValid) ==
  /\ req' = [req EXCEPT ![w] = [kind |-> "signin", bodyOk |-> TRUE,
                                address |-> address,
                                nonce |-> nonce, sigValid |-> sigValid]]
  /\ regBefore' = [regBefore EXCEPT ![w] = Answered201(address)]
  /\ Finish(w, StatusOK, NoString)
  /\ UNCHANGED <<users, lock, max, nonceLog>>

\* A signin request of any client.
SigninHandler(w) ==
  \E address \in SigninAddrInputs, nonce \in SigninNonceInputs, sigValid \in BOOLEAN :
    /\ CanBegin(w)
    /\ SigninArrive(w, address, nonce, sigValid)
    /\ UNCHANGED flow

\* ----------------------------------------------------------- specifications
Next ==
  \E w \in Workers :
    \/ RegisterBegin(w)
    \/ CreateLock(w)
    \/ CreateCheck(w)
    \/ CreateInsert(w)
    \/ CreateUnlock(w)
    \/ RegisterRespond(w)
    \/ UserNonceBegin(w)
    \/ GetRLock(w)
    \/ GetRead(w)
    \/ GetRUnlock(w)
    \/ UserNonceRespond(w)
    \/ SigninHandler(w)

Spec == Init /\ [][Next]_vars

\* GetNonce called on its own, its results recorded.
GetNonceCall ==
  /\ Len(nonceLog) < MaxCalls
  /\ max' = OnceMax
  /\ \E r \in GetNonceResults(OnceMax) : nonceLog' = Append(nonceLog, r)
  /\ UNCHANGED <<users, lock, pc, req, loc, resp, regBefore, flow>>

NextNonce == GetNonceCall

SpecNonce == Init /\ [][NextNonce]_vars

\* ------------------------------------------------------ MetaMaskLogin.vue
\* The addresses the wallet hands to the page.
ClientAddrInputs == {AddrLower, AddrUpper, AddrOther}

\* A fetch resolves: the page has the response and the request is over.
Release(f) ==
  /\ pc' = [pc EXCEPT ![f] = "idle"]
  /\ req' = [req EXCEPT ![f] = NoReq]
  /\ resp' = [resp EXCEPT ![f] = NoResp]
  /\ regBefore' = [regBefore EXCEPT ![f] = FALSE]
  /\ UNCHANGED <<users, lock, max, loc, nonceLog>>

\* login(): the accounts are asked of the wallet, which grants them or throws,
\* and get_nonce sends its request.
LoginClick(f) ==
  /\ flow[f].pc = "idle"
  /\ pc[f] = "idle"
  /\ \E granted \in BOOLEAN, address \in ClientAddrInputs :
       IF granted
         THEN /\ flow' = [flow EXCEPT ![f].pc = "await_nonce", ![f].address = address]
              /\ UserNonceArrive(f, address)
         ELSE /\ flow' = [flow EXCEPT ![f].pc = "done", ![f].outcome = "thrown"]
              /\ UNCHANGED <<users, lock, max, pc, req, loc, resp, regBefore, nonceLog>>

\* get_nonce returns [status, nonce]; login() goes on to sign on 200, to
\* register on 404, and returns on any other status.
GetNonceResponse(f) ==
  /\ flow[f].pc = "await_nonce"
  /\ pc[f] = "done"
  /\ flow' = [flow EXCEPT ![f] =
       IF resp[f].status = StatusOK
         THEN [@ EXCEPT !.pc = "sign", !.nonce = resp[f].body]
       ELSE IF resp[f].status = StatusNotFound
         THEN [@ EXCEPT !.pc = "do_register"]
       ELSE [@ EXCEPT !.pc = "done", !.outcome = "stopped_nonce"]]
  /\ Release(f)

\* register() sends POST /register with the address.
RegisterSend(f) ==
  /\ flow[f].pc = "do_register"
  /\ flow' = [flow EXCEPT ![f].pc = "await_register", ![f].registers = @ + 1]
  /\ RegisterArrive(f, [ok |-> TRUE, address |-> flow[f].address])

\* register() taking every response for a success.
RegisteredAlways(status) == TRUE

\* register() returns true on 201 and false otherwise.
Registered(status) == status = StatusCreated

\* login() after register(): it returns when not registered, and calls
\* login() again otherwise.
RegisterResponse(f) ==
  /\ flow[f].pc = "await_register"
  /\ pc[f] = "done"
  /\ flow' = [flow EXCEPT ![f] =
       IF Registered(resp[f].status)
         THEN [@ EXCEPT !.pc = "do_nonce", !.depth = @ + 1,
                        !.registerStatus = resp[f].status]
         ELSE [@ EXCEPT !.pc = "done", !.outcome = "stopped_register",
                        !.registerStatus = resp[f].status]]
  /\ Release(f)

\* The inner login(): address and account are set, get_nonce sends its request.
NonceSend(f) ==
  /\ flow[f].pc = "do_nonce"
  /\ flow' = [flow EXCEPT ![f].pc = "await_nonce"]
  /\ UserNonceArrive(f, flow[f].address)

\* sign(nonce): the wallet signs the nonce with the account's key or throws;
\* perform_signin sends POST /signin.
Sign(f) ==
  /\ flow[f].pc = "sign"
  /\ \E signed \in BOOLEAN :
       IF signed
         THEN /\ flow' = [flow EXCEPT ![f].pc = "await_signin", ![f].signins = @ + 1]
              /\ SigninArrive(f, flow[f].address, flow[f].nonce, TRUE)
         ELSE /\ flow' = [flow EXCEPT ![f].pc = "done", ![f].outcome = "thrown"]
              /\ UNCHANGED <<users, lock, max, pc, req, loc, resp, regBefore, nonceLog>>

\* response.json() of a body: an empty body is no JSON text.
JsonParses(body) == body # NoString

\* perform_signin: on 200 the body is parsed as the token, which throws for a
\* body that is no JSON; on any other status the token is null.
SigninResponse(f) ==
  /\ flow[f].pc = "await_signin"
  /\ pc[f] = "done"
  /\ flow' = [flow EXCEPT ![f].pc = "done",
                          ![f].outcome =
                            IF resp[f].status = StatusOK
                              THEN IF JsonParses(resp[f].body) THEN "token" ELSE "thrown"
                              ELSE "no_token"]
  /\ Release(f)

\* The server's steps on the requests of the page.
ServerStep(f) ==
  \/ CreateLock(f)
  \/ CreateCheck(f)
  \/ CreateInsert(f)
  \/ CreateUnlock(f)
  \/ RegisterRespond(f)
  \/ GetRLock(f)
  \/ GetRead(f)
  \/ GetRUnlock(f)
  \/ UserNonceRespond(f)

\* What goes on by itself once login() has been called.
ProgressClient ==
  \E f \in Flows :
    \/ GetNonceResponse(f)
    \/ RegisterSend(f)
    \/ RegisterResponse(f)
    \/ NonceSend(f)
    \/ Sign(f)
    \/ SigninResponse(f)
    \/ ServerStep(f)

NextClient == (\E f \in Flows : LoginClick(f)) \/ ProgressClient

\* The page's event loop runs every pending continuation and the server runs
\* every request's goroutine.
SpecClient == Init /\ [][NextClient]_vars /\ WF_vars(ProgressClient)

\* ------------------------------------------------------------------ claims
ValidAddrInputs == {a \in AddrInputs : hexRegex(a)}
Done(w) == pc[w] = "done"
IsRegister(w) == req[w].kind = "register" /\ req[w].bodyOk
IsNonce(w) == req[w].kind = "nonce"
IsSignin(w) == req[w].kind = "signin"

\* The register requests for address a, in any letter case.
RegisterOf(a) == {w \in Workers : IsRegister(w) /\ EqualFold(req[w].address, a)}

\* The register requests whose CreateIfNotExists has stored the user.
Stored(w) ==
  \/ pc[w] \in {"create_unlock", "register_respond"} /\ loc[w].err = "nil"
  \/ Done(w) /\ resp[w].status = StatusCreated

AccountOf(a) == {k \in DOMAIN users : EqualFold(k, a)}

\* A signin request for a registered address that presents the account's nonce.
PresentsCurrentNonce(w) ==
  /\ Done(w) /\ IsSignin(w) /\ hexRegex(req[w].address) /\ regBefore[w]
  /\ \E k \in AccountOf(req[w].address) : users[k].Nonce = req[w].nonce

\* C2: of two signin requests for a registered address that present the
\* account's nonce with a valid signature, exactly one is answered 200 and the
\* other 401 (NonceMismatch).
C2_NonceAcceptedOnce ==
  \A w, v \in Workers :
    (/\ w # v
     /\ PresentsCurrentNonce(w) /\ PresentsCurrentNonce(v)
     /\ req[w].sigValid /\ req[v].sigValid)
    => {resp[w].status, resp[v].status} = {StatusOK, 401}

\* C3: a signin request is answered 200 only if its signature is valid and the
\* address has an account.
C3_TokenOnlyIfVerified ==
  \A w \in Workers :
    (Done(w) /\ IsSignin(w) /\ resp[w].status = StatusOK)
    => /\ req[w].sigValid
       /\ hexRegex(req[w].address)
       /\ AccountOf(req[w].address) # {}

\* C4: for one account and one nonce, at most one signin request presenting it
\* is answered 200, whatever the signatures.
C4_AtMostOneSigninPerNonce ==
  \A a \in ValidAddrInputs :
    Cardinality({w \in Workers :
                   /\ PresentsCurrentNonce(w)
                   /\ EqualFold(req[w].address, a)
                   /\ resp[w].status = StatusOK}) <= 1

\* C5: a signin request for a registered address whose nonce is not the
\* account's nonce is answered 401 (NonceMismatch), whatever the signature.
C5_WrongNonceRejected ==
  \A w \in Workers :
    (/\ Done(w) /\ IsSignin(w) /\ hexRegex(req[w].address) /\ regBefore[w]
     /\ \E k \in AccountOf(req[w].address) : users[k].Nonce # req[w].nonce)
    => resp[w].status = 401

\* C6: after a signin request that presented the account's nonce with an
\* invalid signature, the account's nonce is no longer the presented one.
C6_NonceConsumedOnFailure ==
  \A w \in Workers :
    (/\ Done(w) /\ IsSignin(w) /\ hexRegex(req[w].address) /\ regBefore[w]
     /\ ~req[w].sigValid)
    => \A k \in AccountOf(req[w].address) : users[k].Nonce # req[w].nonce

\* C7: a request of any endpoint whose address is malformed is answered 400
\* at once, and never takes a step in the store.
C7_MalformedRejectedEverywhere ==
  \A w \in Workers :
    (pc[w] # "idle" /\ ~hexRegex(req[w].address))
    => Done(w) /\ resp[w].status = StatusBadRequest

C9_ChallengeIffRegistered ==
  \A w \in Workers :
    (Done(w) /\ IsNonce(w) /\ hexRegex(req[w].address))
    => /\ resp[w].status \in {StatusOK, StatusNotFound}
       /\ regBefore[w] => resp[w].status = StatusOK
       /\ resp[w].status = StatusOK =>
            /\ \E v \in RegisterOf(req[w].address) : Stored(v)
            /\ \E k \in AccountOf(req[w].address) : resp[w].body = users[k].Nonce
       /\ resp[w].status = StatusNotFound => resp[w].body = NoString

\* A nonce request answered 404 before the registration and one answered 200,
\* with the stored nonce, after it.
C9_Witness ==
  \E w, v \in Workers :
    /\ IsNonce(w) /\ Done(w) /\ resp[w].status = StatusNotFound
    /\ IsNonce(v) /\ Done(v) /\ resp[v].status = StatusOK /\ regBefore[v]
    /\ EqualFold(req[w].address, req[v].address)
    /\ resp[v].body # NoString

\* The nonces GetNonce has returned.
Drawn == {nonceLog[i].nonce : i \in {j \in 1..Len(nonceLog) : ~nonceLog[j].err}}

\* C10: every nonce returned is the decimal text of an integer of
\* [0, 2^NonceBits - 1], and once every value the generator can return has
\* been returned, the values returned are all of that range, its upper bound
\* included.
C10_NonceRange ==
  LET Range == {Text10(n) : n \in 0..(2 ^ NonceBits - 1)}
      Possible == {r.nonce : r \in {x \in GetNonceResults(OnceMax) : ~x.err}}
  IN /\ Drawn \subseteq Range
     /\ Possible \subseteq Drawn => Drawn = Range

\* The workers inside a critical section of the store, their lock held.
Holders == {v \in Workers : pc[v] \in {"create_check", "create_insert", "create_unlock",
                                        "get_read", "get_runlock"}}

\* The workers inside CreateIfNotExists, the write lock held.
Writers == {v \in Workers : pc[v] \in {"create_check", "create_insert", "create_unlock"}}

\* C11: a request that waits for the store's lock waits only for requests on
\* its own address: whenever Lock or RLock cannot return, every worker that
\* keeps it from returning works on the same address.
C11_NoContentionAcrossAddresses ==
  \A w \in Workers :
    /\ (pc[w] = "create_lock" /\ ~CanLock)
         => \A v \in Holders : EqualFold(req[v].address, req[w].address)
    /\ (pc[w] = "get_rlock" /\ ~CanRLock)
         => \A v \in Writers : EqualFold(req[v].address, req[w].address)

\* C12: no step removes an address from the store, and the address of every
\* register request whose user CreateIfNotExists has stored is in the store.
C12_NeverDeleted ==
  /\ [][\A k \in DOMAIN users : k \in DOMAIN users']_vars
  /\ [](\A w \in Workers : (IsRegister(w) /\ Stored(w)) => AccountOf(req[w].address) # {})

\* Two addresses registered, the first still stored after the second's
\* registration and a later request.
C12_Witness ==
  /\ Cardinality(DOMAIN users) = 2
  /\ \A w \in Workers : Done(w)
  /\ \E w, v \in Workers :
       /\ w < v /\ IsRegister(w) /\ IsRegister(v)
       /\ resp[w].status = StatusCreated /\ resp[v].status = StatusCreated
       /\ regBefore[NumWorkers]

LowerHexDigit == {DigitChars[j] : j \in 1..10} \cup {LowerChars[j] : j \in 1..6}

\* 0x followed by exactly AddrLen lower-case hex digits.
Canonical(s) ==
  /\ Len(s) = 2 + AddrLen
  /\ s[1] = "0" /\ s[2] = "x"
  /\ \A i \in 3..Len(s) : s[i] \in LowerHexDigit

\* C13: every key of the map is a canonical address and is the Address field
\* of the user stored under it; every request inside a store call has an
\* address that matched the pattern, and the string it inserts or looks up is
\* canonical.
C13_KeysCanonical ==
  /\ \A k \in DOMAIN users : Canonical(k) /\ users[k].Address = k
  /\ \A w \in Workers :
       pc[w] \in {"create_lock", "create_check", "create_insert", "create_unlock"}
       => hexRegex(req[w].address) /\ Canonical(loc[w].u.Address)
  /\ \A w \in Workers :
       pc[w] \in {"get_rlock", "get_read", "get_runlock"}
       => hexRegex(req[w].address) /\ Canonical(NonceKey(req[w].address))

\* An account registered with an upper-case spelling, stored under the
\* lower-case key, while a lookup with the upper-case spelling reads the map.
C13_Witness ==
  \E w, g \in Workers :
    /\ IsRegister(w) /\ Stored(w)
    /\ ~Canonical(req[w].address)
    /\ AccountOf(req[w].address) # {}
    /\ pc[g] = "get_read"
    /\ ~Canonical(req[g].address)

\* The workers inside Get, the read lock held.
Readers == {v \in Workers : pc[v] \in {"get_read", "get_runlock"}}

\* C14: Get never reads the map while CreateIfNotExists is inside its critical
\* section, and at most one CreateIfNotExists is inside it; what Get returns is
\* the whole user as stored, or no user; the user a register request has stored
\* is the one in the map; a nonce request that arrives after a 201 for its
\* address is answered 200, and every 200 carries the nonce of the account that
\* a register request for the address stored.
C14_RegisterGetLinearizable ==
  /\ Cardinality(Writers) <= 1
  /\ Writers # {} => Readers = {}
  /\ \A v \in Workers :
       (IsRegister(v) /\ Stored(v) /\ ~Done(v))
       => /\ loc[v].u.Address \in DOMAIN users
          /\ users[loc[v].u.Address] = loc[v].u
  /\ \A w \in Workers :
       pc[w] \in {"get_runlock", "nonce_respond"}
       => IF loc[w].err = "nil"
            THEN /\ loc[w].u.Address \in DOMAIN users
                 /\ users[loc[w].u.Address] = loc[w].u
                 /\ EqualFold(loc[w].u.Address, req[w].address)
            ELSE loc[w].u = NoUser /\ ~regBefore[w]
  /\ \A w \in Workers :
       (Done(w) /\ IsNonce(w) /\ hexRegex(req[w].address))
       => /\ regBefore[w] => resp[w].status = StatusOK
          /\ resp[w].status = StatusOK =>
               /\ \E v \in RegisterOf(req[w].address) : Stored(v)
               /\ \A k \in AccountOf(req[w].address) : users[k].Nonce = resp[w].body
          /\ resp[w].status # StatusOK =>
               resp[w].status = StatusNotFound /\ resp[w].body = NoString

\* A nonce request that overlapped the registration of its address (it arrived
\* before the 201 was sent) and was answered 200 with the stored nonce, and one
\* that overlapped it and was answered 404.
C14_Witness ==
  \E r, w, v \in Workers :
    /\ IsRegister(r) /\ Done(r) /\ resp[r].status = StatusCreated
    /\ IsNonce(w) /\ Done(w) /\ ~regBefore[w] /\ r < w
    /\ EqualFold(req[w].address, req[r].address)
    /\ resp[w].status = StatusOK /\ resp[w].body # NoString
    /\ IsNonce(v) /\ Done(v) /\ ~regBefore[v] /\ r < v
    /\ EqualFold(req[v].address, req[r].address)
    /\ resp[v].status = StatusNotFound

\* A step in which a request is answered 500.
Answers500(w) ==
  /\ pc[w] # "done"
  /\ pc'[w] = "done"
  /\ resp'[w].status = StatusInternalServerError

\* C15: a step that answers 500 leaves the store and its lock as they were; no
\* request goes on to the store with the empty nonce of a failed GetNonce and
\* no account has it; a register request answered 500 holds no lock, and an
\* account of its address, if there is one, was stored by another request.
C15_NonceFailureIsLocal ==
  /\ [][\A w \in Workers : Answers500(w) => users' = users /\ lock' = lock]_vars
  /\ [](/\ \A k \in DOMAIN users : users[k].Nonce # NoString
        /\ \A w \in Workers :
             pc[w] \in {"create_lock", "create_check", "create_insert", "create_unlock"}
             => loc[w].u.Nonce # NoString
        /\ \A w \in Workers :
             (Done(w) /\ IsRegister(w) /\ resp[w].status = StatusInternalServerError)
             => /\ lock.writer # w
                /\ AccountOf(req[w].address) # {} =>
                     \E v \in RegisterOf(req[w].address) : v # w /\ Stored(v))

\* A register request answered 500 with nothing stored, then a register request
\* for the same address answered 201 and a nonce request answered 200.
C15_Witness ==
  \E w, v, g \in Workers :
    /\ w < v /\ v < g
    /\ IsRegister(w) /\ Done(w) /\ resp[w].status = StatusInternalServerError
    /\ IsRegister(v) /\ Done(v) /\ resp[v].status = StatusCreated
    /\ EqualFold(req[w].address, req[v].address)
    /\ IsNonce(g) /\ Done(g) /\ resp[g].status = StatusOK /\ regBefore[g]
    /\ EqualFold(req[g].address, req[v].address)

\* A step in which worker w's CreateIfNotExists stores a user under a new key.
InsertsNew(w) ==
  /\ pc[w] = "create_insert"
  /\ pc'[w] = "create_unlock"
  /\ loc'[w].err = "nil"
  /\ loc[w].u.Address \notin DOMAIN users
  /\ DOMAIN users' = DOMAIN users \cup {loc[w].u.Address}
  /\ users'[loc[w].u.Address] = loc[w].u

\* C16: no step changes or removes a stored account; the map changes only in
\* the insert of a register request, which adds a new key and is then answered
\* 201; a register request that is to be answered 409 has left the account of
\* its address as it was, also when its own fresh nonce differs from it.
C16_FailedRegisterLeavesMap ==
  /\ [][\A k \in DOMAIN users : k \in DOMAIN users' /\ users'[k] = users[k]]_vars
  /\ [][users' # users => \E w \in Workers : IsRegister(w) /\ InsertsNew(w)]_vars
  /\ [](\A w \in Workers :
          /\ (pc[w] = "register_respond" /\ loc[w].err = "nil")
               => users[loc[w].u.Address] = loc[w].u
          /\ (pc[w] \in {"create_unlock", "register_respond"} /\ loc[w].err # "nil")
               => /\ loc[w].err = "ErrUserExists"
                  /\ loc[w].u.Address \in DOMAIN users
                  /\ \E v \in RegisterOf(req[w].address) : v # w /\ Stored(v)
          /\ (Done(w) /\ IsRegister(w) /\ resp[w].status # StatusCreated)
               => ~Stored(w))

\* A register request about to be answered 409 whose fresh nonce is not the
\* nonce of the account, which is still the one stored by the winner.
C16_Witness ==
  \E w, v \in Workers :
    /\ w # v /\ IsRegister(w) /\ IsRegister(v)
    /\ Done(v) /\ resp[v].status = StatusCreated
    /\ pc[w] = "register_respond" /\ loc[w].err = "ErrUserExists"
    /\ loc[w].u.Address \in DOMAIN users
    /\ users[loc[w].u.Address].Nonce # loc[w].u.Nonce

\* A step of a nonce request.
NonceStep(w) == IsNonce(w) /\ pc[w] # "done" /\ pc'[w] # pc[w]

\* C17: no step of a nonce request, its arrival included, changes the store;
\* every nonce request answered 200 carries the nonce stored for its address,
\* so any two of them for one address, whatever register requests ran between
\* them, carry the same nonce.
C17_GetChallengeReadsOnly ==
  /\ [][\A w \in Workers :
          (NonceStep(w) \/ (pc[w] = "idle" /\ req'[w].kind = "nonce")) => users' = users]_vars
  /\ [](\A w \in Workers :
          (Done(w) /\ IsNonce(w) /\ resp[w].status = StatusOK)
          => /\ AccountOf(req[w].address) # {}
             /\ \A k \in AccountOf(req[w].address) : resp[w].body = users[k].Nonce)
  /\ [](\A w, v \in Workers :
          (/\ Done(w) /\ IsNonce(w) /\ resp[w].status = StatusOK
           /\ Done(v) /\ IsNonce(v) /\ resp[v].status = StatusOK
           /\ EqualFold(req[w].address, req[v].address))
          => resp[w].body = resp[v].body)

\* Two nonce requests for a registered address, one after the other, answered
\* 200 with the same nonce.
C17_Witness ==
  \E w, v \in Workers :
    /\ w # v
    /\ IsNonce(w) /\ Done(w) /\ resp[w].status = StatusOK /\ regBefore[w]
    /\ IsNonce(v) /\ Done(v) /\ resp[v].status = StatusOK /\ regBefore[v]
    /\ EqualFold(req[w].address, req[v].address)
    /\ resp[w].body = resp[v].body /\ resp[w].body # NoString

\* C18: a login() call registers at most once and calls itself at most once,
\* and only after a register answered 201; the nonce request of the inner call
\* is answered 200; a call whose register was not answered 201 has stopped
\* there and has not signed in; a call signs in at most once, with the nonce it
\* fetched; and every login() call made comes to its end.
C18_LoginFlowTerminates ==
  /\ [](\A f \in Flows :
          /\ flow[f].registers <= 1 /\ flow[f].depth <= 1 /\ flow[f].signins <= 1
          /\ flow[f].depth = 1 =>
               flow[f].registers = 1 /\ flow[f].registerStatus = StatusCreated
          /\ (flow[f].pc = "await_nonce" /\ flow[f].depth = 1 /\ pc[f] = "done")
               => resp[f].status = StatusOK
          /\ flow[f].registerStatus \notin {0, StatusCreated} =>
               /\ flow[f].pc = "done" /\ flow[f].outcome = "stopped_register"
               /\ flow[f].signins = 0
          /\ flow[f].signins = 1 => flow[f].nonce # NoString)
  /\ \A f \in Flows : (flow[f].pc # "idle") ~> (flow[f].pc = "done")

\* Two login() calls for one address at once: one registered (201), fetched
\* the nonce again and signed in; the other's register was answered 409 and it
\* stopped without signing in.
C18_Witness ==
  \E f, g \in Flows :
    /\ flow[f].pc = "done" /\ flow[f].registers = 1 /\ flow[f].depth = 1
    /\ flow[f].registerStatus = StatusCreated /\ flow[f].signins = 1
    /\ flow[g].pc = "done" /\ flow[g].registers = 1
    /\ flow[g].registerStatus = StatusConflict /\ flow[g].signins = 0
    /\ EqualFold(flow[f].address, flow[g].address)

====
